---- MODULE Spec2Model ----
(***************************************************************************)
(* pyvideosync.main.main: selection of the camera file groups whose chunk  *)
(* serial range overlaps the NEV recording, the per-camera join of NEV,    *)
(* camera JSON and NS5 rows, and the assembly of one video per camera.     *)
(***************************************************************************)
EXTENDS Integers, Sequences, FiniteSets, TLC

\* ------------------------------------------------------------------ bounds
MaxSerial == 3
JoinSerial == 2
MaxTime == 3
MaxFrame == 3
MaxNevRows == 2
MaxCamRows == 2
SelGroups == 2
RunGroups == 2
MaxRuns == 2

\* ------------------------------------------------------------- data values
\* Python's None (a missing path, a missing serial range, a missing file).
None == <<>>

\* A value held in a nullable place.
Some(v) == <<v>>

\* The null pandas puts in the right-hand columns of an unmatched left row.
NaN == None

Range(s) == {s[k] : k \in DOMAIN s}

Min(S) == CHOOSE x \in S : \A y \in S : x <= y

Max(S) == CHOOSE x \in S : \A y \in S : y <= x

\* The path get_mp4_file resolves for a camera inside one file group.
Mp4Path(timestamp, camera_serial) ==
    [kind |-> "mp4", group |-> timestamp, camera |-> camera_serial]

\* The path make_synced_subclip_ffmpeg returns for one source file.
SubclipPath(mp4_path) ==
    [kind |-> "subclip", group |-> mp4_path.group, camera |-> mp4_path.camera]

\* os.path.join(output_dir, camera_serial, f"stitched_{camera_serial}.mp4")
StitchedPath(camera_serial) ==
    [kind |-> "stitched", group |-> 0, camera |-> camera_serial]

\* ----------------------------------------------------------- collaborators
\* get_column_min_max(nev_chunk_serial_df, "chunk_serial")
get_column_min_max(df) ==
    LET col == {df[k].chunk_serial : k \in DOMAIN df}
    IN  <<Min(col), Max(col)>>

InsertSorted(x, s) ==
    LET k == Cardinality({j \in DOMAIN s : s[j] <= x})
    IN  SubSeq(s, 1, k) \o <<x>> \o SubSeq(s, k + 1, Len(s))

RECURSIVE sort_timestamps(_)
\* sort_timestamps(timestamps): the keys in ascending order.
sort_timestamps(ts) ==
    IF ts = <<>> THEN <<>> ELSE InsertSorted(Head(ts), sort_timestamps(Tail(ts)))

\* The dense NS5 signal: one sample per timestamp of the recording.
Amplitude(t) == 100 + t

\* ns5.get_filtered_channel_df(channel, start, end): the samples whose
\* timestamp lies in [start, end], in ascending timestamp order.
get_filtered_channel_df(start, end) ==
    LET all == [t \in 1..MaxTime |-> [TimeStamp |-> t, Amplitude |-> Amplitude(t)]]
        In(s) == start <= s.TimeStamp /\ s.TimeStamp <= end
    IN  SelectSeq(all, In)

\* save_timestamps(path, timestamps): the file then holds the list.
save_timestamps(ts) == Some(ts)

\* load_timestamps(path, logger): the list the file holds, nothing when
\* there is no file.
load_timestamps(file) == IF file = None THEN None ELSE file[1]

\* camera_files[timestamp]
GroupOf(files, timestamp) ==
    files[CHOOSE k \in DOMAIN files : files[k].timestamp = timestamp]

\* ------------------------------------------------------- overlap selection
\* Lines 73-77: "if timestamps:" decides between the loaded list and a scan
\* that starts from an empty list; None and the empty list are both falsy.
SelectionStartRescan(loaded) ==
    [timestamps |-> loaded, scan |-> TRUE]

SelectionStart(loaded) ==
    IF loaded # <<>>
    THEN [timestamps |-> loaded, scan |-> FALSE]
    ELSE [timestamps |-> <<>>, scan |-> TRUE]

\* Lines 90-100: what one resolvable group does to the scan.
ScanBranchLE(start_serial, end_serial, nev_start, nev_end) ==
    IF end_serial <= nev_start THEN "continue"
    ELSE IF start_serial <= nev_end THEN "append"
    ELSE "break"

ScanBranchNoBreak(start_serial, end_serial, nev_start, nev_end) ==
    IF end_serial < nev_start THEN "continue"
    ELSE IF start_serial <= nev_end THEN "append"
    ELSE "continue"

ScanBranch(start_serial, end_serial, nev_start, nev_end) ==
    IF end_serial < nev_start THEN "continue"
    ELSE IF start_serial <= nev_end THEN "append"
    ELSE "break"

\* Lines 80-100: one group of the scan, unresolvable metadata included.
ScanOutcome(group, nev_start, nev_end) ==
    IF ~group.json THEN "continue"
    ELSE IF group.serials = None THEN "continue"
    ELSE ScanBranch(group.serials[1], group.serials[2], nev_start, nev_end)

\* ------------------------------------------------------------------- joins
\* Lines 124-128: frame_ids_relative, anchored at .iloc[0].
WithRelativeNoPlusOne(rows) ==
    [k \in DOMAIN rows |->
        [chunk_serial_data |-> rows[k].chunk_serial_data,
         frame_ids_reconstructed |-> rows[k].frame_ids_reconstructed,
         frame_ids_relative |->
            rows[k].frame_ids_reconstructed - rows[1].frame_ids_reconstructed]]

WithRelative(rows) ==
    [k \in DOMAIN rows |->
        [chunk_serial_data |-> rows[k].chunk_serial_data,
         frame_ids_reconstructed |-> rows[k].frame_ids_reconstructed,
         frame_ids_relative |->
            rows[k].frame_ids_reconstructed - rows[1].frame_ids_reconstructed + 1]]

\* Lines 130-133: the rows inside the NEV serial range.
FilterRange(df, nev_start, nev_end) ==
    LET In(r) == r.chunk_serial_data >= nev_start /\ r.chunk_serial_data <= nev_end
    IN  SelectSeq(df, In)

\* The camera rows one NEV row joins with, in the camera table's order.
MatchesOfEvent(e, cam) ==
    LET Eq(r) == r.chunk_serial_data = e.chunk_serial
        hit == SelectSeq(cam, Eq)
    IN  [k \in DOMAIN hit |->
            [chunk_serial |-> e.chunk_serial,
             TimeStamps |-> e.TimeStamps,
             frame_ids_reconstructed |-> hit[k].frame_ids_reconstructed,
             frame_ids_relative |-> hit[k].frame_ids_relative]]

RECURSIVE InnerMerge(_, _)
\* Lines 135-140: nev.merge(camera_df, how="inner"), in the order of the
\* left keys.
InnerMerge(nev, cam) ==
    IF nev = <<>> THEN <<>>
    ELSE MatchesOfEvent(Head(nev), cam) \o InnerMerge(Tail(nev), cam)

\* The rows one NS5 sample yields in the left merge.
RowsOfSampleInner(s, joined) ==
    LET Eq(r) == r.TimeStamps = s.TimeStamp
        hit == SelectSeq(joined, Eq)
    IN  [k \in DOMAIN hit |->
            [TimeStamp |-> s.TimeStamp,
             Amplitude |-> s.Amplitude,
             chunk_serial |-> Some(hit[k].chunk_serial),
             frame_ids_reconstructed |-> Some(hit[k].frame_ids_reconstructed),
             frame_ids_relative |-> Some(hit[k].frame_ids_relative)]]

RowsOfSample(s, joined) ==
    LET Eq(r) == r.TimeStamps = s.TimeStamp
        hit == SelectSeq(joined, Eq)
    IN  IF hit = <<>>
        THEN <<[TimeStamp |-> s.TimeStamp,
                Amplitude |-> s.Amplitude,
                chunk_serial |-> NaN,
                frame_ids_reconstructed |-> NaN,
                frame_ids_relative |-> NaN]>>
        ELSE [k \in DOMAIN hit |->
                [TimeStamp |-> s.TimeStamp,
                 Amplitude |-> s.Amplitude,
                 chunk_serial |-> Some(hit[k].chunk_serial),
                 frame_ids_reconstructed |-> Some(hit[k].frame_ids_reconstructed),
                 frame_ids_relative |-> Some(hit[k].frame_ids_relative)]]

RECURSIVE LeftMerge(_, _)
\* Lines 150-166: ns5_slice.merge(chunk_serial_joined, how="left") and the
\* column selection.
LeftMerge(slice, joined) ==
    IF slice = <<>> THEN <<>>
    ELSE RowsOfSample(Head(slice), joined) \o LeftMerge(Tail(slice), joined)

\* Line 173: all_merged["mp4_file"] = mp4_path
WithMp4(df, mp4_path) ==
    [k \in DOMAIN df |->
        [TimeStamp |-> df[k].TimeStamp,
         Amplitude |-> df[k].Amplitude,
         chunk_serial |-> df[k].chunk_serial,
         frame_ids_reconstructed |-> df[k].frame_ids_reconstructed,
         frame_ids_relative |-> df[k].frame_ids_relative,
         mp4_file |-> mp4_path]]

RECURSIVE Concat(_)
\* Line 180: pd.concat(all_merged_list, ignore_index=True)
Concat(list) ==
    IF list = <<>> THEN <<>> ELSE Head(list) \o Concat(Tail(list))

UniqueNoDedup(s) == s

RECURSIVE Unique(_)
\* Line 194: Series.unique(), the distinct values in order of first appearance.
Unique(s) ==
    IF s = <<>> THEN <<>>
    ELSE LET Other(x) == x # Head(s)
         IN  <<Head(s)>> \o Unique(SelectSeq(Tail(s), Other))

\* all_merged_df["mp4_file"]
Mp4Column(df) == [k \in DOMAIN df |-> df[k].mp4_file]

\* ------------------------------------------------------------------- state
VARIABLES
    nev_chunk_serial_df,  \* nev.get_chunk_serial_df(): rows (chunk_serial, TimeStamps)
    camera_files,         \* list_groups(): the file groups in iteration order
    camera_serials,       \* pathutils.cam_serial
    timestamps_file,      \* timestamps.json: None, or Some(the saved list)
    run,                  \* which invocation of main this is
    pc,                   \* the position inside main
    err,                  \* None, or the exception that ended the run
    nev_start_serial,
    nev_end_serial,
    timestamps,
    scan_pos,             \* position of the scan loop of line 78
    scanned,              \* whether this run went through the scan loop
    sorted_timestamps,
    cam_pos,              \* position of the camera loop of line 111
    i,                    \* position of the descriptor loop of line 114
    all_merged_list,
    camera_df,
    chunk_serial_joined,
    ns5_slice,
    all_merged,
    mp4_files,            \* all_merged_df["mp4_file"].unique()
    sub_pos,              \* position of the subclip loop of line 194
    subclip_paths,
    final_paths,          \* final_path of every camera processed so far
    ns5_queries,          \* the (start, end) pairs given to the NS5 reader
    subclip_calls,        \* the calls of make_synced_subclip_ffmpeg
    concat_calls,         \* the calls of ffmpeg_concat_mp4s
    selection_log         \* sorted_timestamps of every run so far

inputs == <<nev_chunk_serial_df, camera_files, camera_serials>>

locals == <<timestamps, scan_pos, scanned, sorted_timestamps, cam_pos, i,
            all_merged_list, camera_df, chunk_serial_joined, ns5_slice,
            all_merged, mp4_files, sub_pos, subclip_paths>>

effects == <<final_paths, ns5_queries, subclip_calls, concat_calls>>

vars == <<inputs, timestamps_file, run, pc, err, nev_start_serial,
          nev_end_serial, locals, effects, selection_log>>

\* The state main starts from, whatever its inputs.
FreshRun ==
    /\ pc = "start"
    /\ err = None
    /\ nev_start_serial = 0
    /\ nev_end_serial = 0
    /\ timestamps = <<>>
    /\ scan_pos = 0
    /\ scanned = FALSE
    /\ sorted_timestamps = <<>>
    /\ cam_pos = 0
    /\ i = 0
    /\ all_merged_list = <<>>
    /\ camera_df = <<>>
    /\ chunk_serial_joined = <<>>
    /\ ns5_slice = <<>>
    /\ all_merged = <<>>
    /\ mp4_files = <<>>
    /\ sub_pos = 0
    /\ subclip_paths = <<>>
    /\ final_paths = <<>>
    /\ ns5_queries = <<>>
    /\ subclip_calls = <<>>
    /\ concat_calls = <<>>

FirstRun ==
    /\ FreshRun
    /\ run = 1
    /\ timestamps_file = None
    /\ selection_log = <<>>

\* The camera being processed.
camera_serial == camera_serials[cam_pos]

\* The file group of the descriptor being processed.
camera_file_group == GroupOf(camera_files, sorted_timestamps[i])

\* ----------------------------------------------------------------- actions
\* Lines 33-77 (and lines 104-108 when the loaded list is used), for a valid
\* config and a data pool that passes verify_integrity.
StartRun ==
    /\ pc = "start"
    /\ LET range == get_column_min_max(nev_chunk_serial_df)
           start == SelectionStart(load_timestamps(timestamps_file))
       IN  /\ nev_start_serial' = range[1]
           /\ nev_end_serial' = range[2]
           /\ timestamps' = start.timestamps
           /\ scanned' = start.scan
           /\ IF start.scan
              THEN /\ scan_pos' = 1
                   /\ pc' = IF camera_files = <<>> THEN "save" ELSE "scan"
                   /\ UNCHANGED <<sorted_timestamps, cam_pos, selection_log>>
              ELSE /\ sorted_timestamps' = sort_timestamps(start.timestamps)
                   /\ selection_log' =
                        Append(selection_log, sort_timestamps(start.timestamps))
                   /\ cam_pos' = 1
                   /\ pc' = "camera"
                   /\ UNCHANGED scan_pos
    /\ UNCHANGED <<inputs, timestamps_file, run, err, i, all_merged_list,
                   camera_df, chunk_serial_joined, ns5_slice, all_merged,
                   mp4_files, sub_pos, subclip_paths, effects>>

\* Lines 78-100: one iteration of the scan.
ScanGroup ==
    /\ pc = "scan"
    /\ LET group == camera_files[scan_pos]
           outcome == ScanOutcome(group, nev_start_serial, nev_end_serial)
       IN  /\ timestamps' = IF outcome = "append"
                            THEN Append(timestamps, group.timestamp)
                            ELSE timestamps
           /\ IF outcome = "break" \/ scan_pos = Len(camera_files)
              THEN /\ pc' = "save"
                   /\ UNCHANGED scan_pos
              ELSE /\ pc' = "scan"
                   /\ scan_pos' = scan_pos + 1
    /\ UNCHANGED <<inputs, timestamps_file, run, err, nev_start_serial,
                   nev_end_serial, scanned, sorted_timestamps, cam_pos, i,
                   all_merged_list, camera_df, chunk_serial_joined, ns5_slice,
                   all_merged, mp4_files, sub_pos, subclip_paths, effects,
                   selection_log>>

\* Lines 101-108: the list is saved, then sorted.
SaveTimestamps ==
    /\ pc = "save"
    /\ timestamps_file' = save_timestamps(timestamps)
    /\ sorted_timestamps' = sort_timestamps(timestamps)
    /\ selection_log' = Append(selection_log, sort_timestamps(timestamps))
    /\ cam_pos' = 1
    /\ pc' = "camera"
    /\ UNCHANGED <<inputs, run, err, nev_start_serial, nev_end_serial,
                   timestamps, scan_pos, scanned, i, all_merged_list,
                   camera_df, chunk_serial_joined, ns5_slice, all_merged,
                   mp4_files, sub_pos, subclip_paths, effects>>

\* Where the descriptor loop of line 114 goes once it stands at position k.
DescriptorLoop(k) ==
    IF k <= Len(sorted_timestamps) THEN "descriptor" ELSE "assemble"

\* Lines 111-112: the head of the camera loop.
NextCamera ==
    /\ pc = "camera"
    /\ IF cam_pos > Len(camera_serials)
       THEN /\ pc' = "done"
            /\ UNCHANGED <<all_merged_list, i>>
       ELSE /\ all_merged_list' = <<>>
            /\ i' = 1
            /\ pc' = DescriptorLoop(1)
    /\ UNCHANGED <<inputs, timestamps_file, run, err, nev_start_serial,
                   nev_end_serial, timestamps, scan_pos, scanned,
                   sorted_timestamps, cam_pos, camera_df, chunk_serial_joined,
                   ns5_slice, all_merged, mp4_files, sub_pos, subclip_paths,
                   effects, selection_log>>

\* Lines 115-128: the JSON file is resolved, the camera's rows are read and
\* frame_ids_relative is computed; .iloc[0] of an empty table raises.
LoadCameraRows ==
    /\ pc = "descriptor"
    /\ LET rows == camera_file_group.rows[camera_serial]
       IN  IF ~camera_file_group.json
           THEN /\ i' = i + 1
                /\ pc' = DescriptorLoop(i + 1)
                /\ UNCHANGED <<camera_df, err>>
           ELSE IF rows = <<>>
           THEN /\ pc' = "crashed"
                /\ err' = Some("IndexError: camera_df.iloc[0]")
                /\ camera_df' = rows
                /\ UNCHANGED i
           ELSE /\ camera_df' = WithRelative(rows)
                /\ pc' = "join"
                /\ UNCHANGED <<i, err>>
    /\ UNCHANGED <<inputs, timestamps_file, run, nev_start_serial,
                   nev_end_serial, timestamps, scan_pos, scanned,
                   sorted_timestamps, cam_pos, all_merged_list,
                   chunk_serial_joined, ns5_slice, all_merged, mp4_files,
                   sub_pos, subclip_paths, effects, selection_log>>

\* Lines 130-174: the range filter, the serial join, the NS5 query, the
\* timestamp join and the source file; .iloc[0] of an empty join raises.
JoinDescriptor ==
    /\ pc = "join"
    /\ LET filtered == FilterRange(camera_df, nev_start_serial, nev_end_serial)
           joined == InnerMerge(nev_chunk_serial_df, filtered)
           first == joined[1].TimeStamps
           last == joined[Len(joined)].TimeStamps
           slice == get_filtered_channel_df(first, last)
           merged == LeftMerge(slice, joined)
           mp4_path == Mp4Path(camera_file_group.timestamp, camera_serial)
       IN  /\ camera_df' = filtered
           /\ chunk_serial_joined' = joined
           /\ IF joined = <<>>
              THEN /\ pc' = "crashed"
                   /\ err' = Some("IndexError: chunk_serial_joined.iloc[0]")
                   /\ UNCHANGED <<ns5_slice, all_merged, ns5_queries,
                                  all_merged_list, i>>
              ELSE /\ ns5_queries' = Append(ns5_queries, <<first, last>>)
                   /\ ns5_slice' = slice
                   /\ i' = i + 1
                   /\ pc' = DescriptorLoop(i + 1)
                   /\ UNCHANGED err
                   /\ IF ~camera_file_group.mp4[camera_serial]
                      THEN /\ all_merged' = merged
                           /\ UNCHANGED all_merged_list
                      ELSE /\ all_merged' = WithMp4(merged, mp4_path)
                           /\ all_merged_list' =
                                Append(all_merged_list, WithMp4(merged, mp4_path))
    /\ UNCHANGED <<inputs, timestamps_file, run, nev_start_serial,
                   nev_end_serial, timestamps, scan_pos, scanned,
                   sorted_timestamps, cam_pos, mp4_files, sub_pos,
                   subclip_paths, final_paths, subclip_calls, concat_calls,
                   selection_log>>

\* Where the subclip loop of line 194 goes once it stands at position k.
SubclipLoop(files, k) ==
    IF k <= Len(files) THEN "subclip" ELSE "final"

\* Lines 176-193: nothing merged ends the camera; otherwise the tables are
\* concatenated and the subclip loop starts.
ConcatMerged ==
    /\ pc = "assemble"
    /\ IF all_merged_list = <<>>
       THEN /\ cam_pos' = cam_pos + 1
            /\ pc' = "camera"
            /\ UNCHANGED <<mp4_files, sub_pos, subclip_paths>>
       ELSE /\ mp4_files' = Unique(Mp4Column(Concat(all_merged_list)))
            /\ subclip_paths' = <<>>
            /\ sub_pos' = 1
            /\ pc' = SubclipLoop(Unique(Mp4Column(Concat(all_merged_list))), 1)
            /\ UNCHANGED cam_pos
    /\ UNCHANGED <<inputs, timestamps_file, run, err, nev_start_serial,
                   nev_end_serial, timestamps, scan_pos, scanned,
                   sorted_timestamps, i, all_merged_list, camera_df,
                   chunk_serial_joined, ns5_slice, all_merged, effects,
                   selection_log>>

\* Lines 194-204: one subclip; the media call returns a path or raises.
MakeSubclip ==
    /\ pc = "subclip"
    /\ subclip_calls' = Append(subclip_calls,
                               [camera |-> camera_serial, mp4 |-> mp4_files[sub_pos]])
    /\ \E completes \in BOOLEAN :
          IF completes
          THEN /\ subclip_paths' =
                    Append(subclip_paths, SubclipPath(mp4_files[sub_pos]))
               /\ sub_pos' = sub_pos + 1
               /\ pc' = SubclipLoop(mp4_files, sub_pos + 1)
               /\ UNCHANGED err
          ELSE /\ pc' = "crashed"
               /\ err' = Some("make_synced_subclip_ffmpeg raised")
               /\ UNCHANGED <<subclip_paths, sub_pos>>
    /\ UNCHANGED <<inputs, timestamps_file, run, nev_start_serial,
                   nev_end_serial, timestamps, scan_pos, scanned,
                   sorted_timestamps, cam_pos, i, all_merged_list, camera_df,
                   chunk_serial_joined, ns5_slice, all_merged, mp4_files,
                   final_paths, ns5_queries, concat_calls, selection_log>>

\* Lines 208-216: a single subclip is the output, anything else is stitched.
Finalize ==
    /\ pc = "final"
    /\ IF Len(subclip_paths) = 1
       THEN /\ final_paths' = Append(final_paths,
                 [camera |-> camera_serial, path |-> subclip_paths[1]])
            /\ cam_pos' = cam_pos + 1
            /\ pc' = "camera"
            /\ UNCHANGED <<concat_calls, err>>
       ELSE /\ concat_calls' = Append(concat_calls,
                 [camera |-> camera_serial, paths |-> subclip_paths])
            /\ \E completes \in BOOLEAN :
                  IF completes
                  THEN /\ final_paths' = Append(final_paths,
                            [camera |-> camera_serial,
                             path |-> StitchedPath(camera_serial)])
                       /\ cam_pos' = cam_pos + 1
                       /\ pc' = "camera"
                       /\ UNCHANGED err
                  ELSE /\ pc' = "crashed"
                       /\ err' = Some("ffmpeg_concat_mp4s raised")
                       /\ UNCHANGED <<final_paths, cam_pos>>
    /\ UNCHANGED <<inputs, timestamps_file, run, nev_start_serial,
                   nev_end_serial, timestamps, scan_pos, scanned,
                   sorted_timestamps, i, all_merged_list, camera_df,
                   chunk_serial_joined, ns5_slice, all_merged, mp4_files,
                   sub_pos, subclip_paths, ns5_queries, subclip_calls,
                   selection_log>>

\* main is invoked again on the same inputs and the same output directory.
Rerun ==
    /\ pc \in {"done", "crashed"}
    /\ run < MaxRuns
    /\ run' = run + 1
    /\ pc' = "start"
    /\ err' = None
    /\ nev_start_serial' = 0
    /\ nev_end_serial' = 0
    /\ timestamps' = <<>>
    /\ scan_pos' = 0
    /\ scanned' = FALSE
    /\ sorted_timestamps' = <<>>
    /\ cam_pos' = 0
    /\ i' = 0
    /\ all_merged_list' = <<>>
    /\ camera_df' = <<>>
    /\ chunk_serial_joined' = <<>>
    /\ ns5_slice' = <<>>
    /\ all_merged' = <<>>
    /\ mp4_files' = <<>>
    /\ sub_pos' = 0
    /\ subclip_paths' = <<>>
    /\ final_paths' = <<>>
    /\ ns5_queries' = <<>>
    /\ subclip_calls' = <<>>
    /\ concat_calls' = <<>>
    /\ UNCHANGED <<inputs, timestamps_file, selection_log>>

\* ---------------------------------------------------------- specifications
\* One invocation of main.
RunOnce ==
    \/ StartRun
    \/ ScanGroup
    \/ SaveTimestamps
    \/ NextCamera
    \/ LoadCameraRows
    \/ JoinDescriptor
    \/ ConcatMerged
    \/ MakeSubclip
    \/ Finalize

Next ==
    \/ RunOnce
    \/ Rerun

\* One row of a camera table as get_camera_df returns it.
Row(serial, frame) ==
    [chunk_serial_data |-> serial, frame_ids_reconstructed |-> frame]

\* The sequences of length n over S that never decrease.
NonDecreasing(S, n) ==
    {s \in [1..n -> S] : \A k \in 1..(n - 1) : s[k] <= s[k + 1]}

Orders(n) ==
    {p \in [1..n -> 1..n] : \A a, b \in 1..n : p[a] = p[b] => a = b}

\* What the JSON of a group may hold where the selection is concerned: no
\* JSON file, no chunk serials, or a serial range.
SelectionChoices ==
    {[json |-> FALSE, serials |-> None], [json |-> TRUE, serials |-> None]}
    \cup {[json |-> TRUE, serials |-> <<a, b>>] :
            a \in 1..MaxSerial, b \in 1..MaxSerial}

\* A group whose cameras all recorded one frame at the first and one at the
\* last serial of the group.
SelectionGroup(timestamp, choice, cameras) ==
    [timestamp |-> timestamp,
     json |-> choice.json,
     serials |-> choice.serials,
     rows |-> [c \in cameras |->
                 IF choice.serials = None THEN <<>>
                 ELSE <<Row(choice.serials[1], 1), Row(choice.serials[2], 2)>>],
     mp4 |-> [c \in cameras |-> TRUE]]

\* Every reference range and every sequence of SelGroups groups, two cameras.
Init ==
    /\ FirstRun
    /\ camera_serials = <<1, 2>>
    /\ \E s \in 1..MaxSerial, e \in 1..MaxSerial :
          /\ s <= e
          /\ nev_chunk_serial_df = <<[chunk_serial |-> s, TimeStamps |-> 1],
                                     [chunk_serial |-> e, TimeStamps |-> 2]>>
    /\ \E choice \in [1..SelGroups -> {c \in SelectionChoices :
                          c.serials = None \/ c.serials[1] <= c.serials[2]}] :
          camera_files =
            [k \in 1..SelGroups |-> SelectionGroup(k, choice[k], {1, 2})]

Spec == Init /\ [][Next]_vars

\* Every NEV table of at most MaxNevRows rows and every camera table of at
\* most MaxCamRows rows, one group that spans all serials, one camera.
InitJoin ==
    /\ FirstRun
    /\ camera_serials = <<1>>
    /\ \E n \in 1..MaxNevRows :
          \E ser \in NonDecreasing(1..JoinSerial, n), ts \in [1..n -> 1..MaxTime] :
             nev_chunk_serial_df =
               [k \in 1..n |-> [chunk_serial |-> ser[k], TimeStamps |-> ts[k]]]
    /\ \E m \in 0..MaxCamRows :
          \E ser \in NonDecreasing(1..JoinSerial, m) :
             camera_files =
               <<[timestamp |-> 1,
                  json |-> TRUE,
                  serials |-> <<1, JoinSerial>>,
                  rows |-> <<[k \in 1..m |-> Row(ser[k], k)]>>,
                  mp4 |-> <<TRUE>>]>>

SpecJoin == InitJoin /\ [][RunOnce]_vars

\* Every order of the reconstructed frame indices of one camera table.
InitRel ==
    /\ FirstRun
    /\ camera_serials = <<1>>
    /\ nev_chunk_serial_df = <<[chunk_serial |-> 1, TimeStamps |-> 1]>>
    /\ \E m \in 0..MaxCamRows, resolves \in BOOLEAN :
          \E frames \in [1..m -> 1..MaxFrame] :
             camera_files =
               <<[timestamp |-> 1,
                  json |-> TRUE,
                  serials |-> <<1, 1>>,
                  rows |-> <<[k \in 1..m |-> Row(1, frames[k])]>>,
                  mp4 |-> <<resolves>>]>>

SpecRel == InitRel /\ [][RunOnce]_vars

\* What one camera finds in one selected group.
RunChoices == {"no rows", "no join", "no mp4", "ok"}

RunRows(choice) ==
    CASE choice = "no rows" -> <<>>
      [] choice = "no join" -> <<Row(2, 1)>>
      [] OTHER -> <<Row(1, 1), Row(3, 2)>>

\* RunGroups overlapping groups in any iteration order, two cameras, each
\* finding any of RunChoices in each group.
InitRun ==
    /\ FirstRun
    /\ camera_serials = <<1, 2>>
    /\ nev_chunk_serial_df = <<[chunk_serial |-> 1, TimeStamps |-> 1],
                               [chunk_serial |-> 3, TimeStamps |-> 2]>>
    /\ \E order \in Orders(RunGroups) :
          \E choice \in [1..RunGroups -> [{1, 2} -> RunChoices]] :
             camera_files =
               [k \in 1..RunGroups |->
                  [timestamp |-> order[k],
                   json |-> TRUE,
                   serials |-> <<1, 3>>,
                   rows |-> [c \in {1, 2} |-> RunRows(choice[k][c])],
                   mp4 |-> [c \in {1, 2} |-> choice[k][c] # "no mp4"]]]

SpecRun == InitRun /\ [][RunOnce]_vars

\* ------------------------------------------------------------ properties
\* The selection of this run came from the scan, and the scan has ended.
ScanEnded == scanned /\ pc \notin {"start", "scan"}

Resolvable(group) == group.json /\ group.serials # None

\* The group has serials, reaches the reference range and starts beyond it.
EndsScan(group) ==
    /\ Resolvable(group)
    /\ group.serials[2] >= nev_start_serial
    /\ group.serials[1] > nev_end_serial

Overlaps(group) ==
    /\ Resolvable(group)
    /\ group.serials[2] >= nev_start_serial
    /\ group.serials[1] <= nev_end_serial

PositionOf(timestamp) ==
    CHOOSE k \in DOMAIN camera_files : camera_files[k].timestamp = timestamp

\* C1: once the scan has ended, a group is in the selected list if and only
\* if its metadata resolves to serials, its max serial is >= nev_start_serial,
\* its min serial is <= nev_end_serial and no earlier group with serials had
\* max serial >= nev_start_serial and min serial > nev_end_serial; the list
\* holds the groups once each, in scan order.
C1_SelectedIff ==
    ScanEnded =>
      /\ \A k \in DOMAIN camera_files :
            (camera_files[k].timestamp \in Range(timestamps))
            <=> (/\ Overlaps(camera_files[k])
                 /\ \A j \in 1..(k - 1) : ~EndsScan(camera_files[j]))
      /\ \A a, b \in DOMAIN timestamps :
            a < b => PositionOf(timestamps[a]) < PositionOf(timestamps[b])

\* C1 witness: a group beyond the range ended the scan and a later group that
\* overlaps the range was left out.
C1_Witness ==
    /\ ScanEnded
    /\ \E j, k \in DOMAIN camera_files :
          /\ j < k
          /\ EndsScan(camera_files[j])
          /\ Overlaps(camera_files[k])
          /\ camera_files[k].timestamp \notin Range(timestamps)

\* The position of the first group whose min serial exceeds nev_end_serial,
\* or one past the last group when there is none.
FirstBeyond ==
    LET beyond == {k \in DOMAIN camera_files :
                      /\ Resolvable(camera_files[k])
                      /\ camera_files[k].serials[1] > nev_end_serial}
    IN  IF beyond = {} THEN Len(camera_files) + 1 ELSE Min(beyond)

\* The first n groups, minus those without serials and those whose max
\* serial is below nev_start_serial.
PrefixMinusEarlier(n) ==
    LET Keep(k) == /\ Resolvable(camera_files[k])
                   /\ camera_files[k].serials[2] >= nev_start_serial
        kept == SelectSeq([k \in 1..n |-> k], Keep)
    IN  [j \in DOMAIN kept |-> camera_files[kept[j]].timestamp]

\* C2 as stated: the selected list is the prefix up to AND INCLUDING the first
\* group whose min serial exceeds nev_end_serial, minus the groups whose max
\* serial is below nev_start_serial.
C2_PrefixIncludingFirstBeyond ==
    ScanEnded =>
      timestamps = PrefixMinusEarlier(IF FirstBeyond <= Len(camera_files)
                                      THEN FirstBeyond
                                      ELSE Len(camera_files))

\* C2 amended: the selected list is the prefix strictly BEFORE the first group
\* whose min serial exceeds nev_end_serial, minus the groups whose max serial
\* is below nev_start_serial (and those without resolvable serials).
C2_PrefixBeforeFirstBeyond ==
    ScanEnded => timestamps = PrefixMinusEarlier(FirstBeyond - 1)

\* C2 witness: a group was selected and the next one, beyond the range, ended
\* the scan.
C2_Witness ==
    /\ ScanEnded
    /\ timestamps # <<>>
    /\ FirstBeyond <= Len(camera_files)
    /\ FirstBeyond > 1

\* The run has passed line 104.
Selected == pc \notin {"start", "scan", "save"}

PendingJoin ==
    InnerMerge(nev_chunk_serial_df,
               FilterRange(camera_df, nev_start_serial, nev_end_serial))

\* C3: a descriptor whose serial join is empty is skipped: the NS5 reader is
\* not queried, nothing is appended and the loop goes on to the next
\* descriptor.
C3_EmptyJoinSkipped ==
    [][(pc = "join" /\ PendingJoin = <<>>)
         => /\ pc' = DescriptorLoop(i + 1)
            /\ i' = i + 1
            /\ err' = None
            /\ ns5_queries' = ns5_queries
            /\ all_merged_list' = all_merged_list]_vars

\* C4: a selected descriptor with no rows for the camera is skipped and the
\* loop goes on to the next descriptor.
C4_EmptyRowsSkipped ==
    [][(/\ pc = "descriptor"
        /\ camera_file_group.json
        /\ camera_file_group.rows[camera_serial] = <<>>)
         => /\ pc' = DescriptorLoop(i + 1)
            /\ i' = i + 1
            /\ err' = None]_vars

\* The camera has a selected descriptor that resolves, has rows, joins and
\* has a video file.
HasUsableDescriptor(c) ==
    \E k \in DOMAIN sorted_timestamps :
       LET group == GroupOf(camera_files, sorted_timestamps[k])
       IN  /\ group.json
           /\ group.rows[c] # <<>>
           /\ group.mp4[c]
           /\ InnerMerge(nev_chunk_serial_df,
                         FilterRange(WithRelative(group.rows[c]),
                                     nev_start_serial, nev_end_serial)) # <<>>

\* A media call made for the camera raised.
MediaFailed(c) ==
    /\ err \in {Some("make_synced_subclip_ffmpeg raised"),
                Some("ffmpeg_concat_mp4s raised")}
    /\ camera_serials[cam_pos] = c

\* C5: when the run has ended, every camera that has a usable descriptor and
\* whose own media calls did not fail has its output, whatever went wrong
\* with other descriptors or other cameras.
C5_EveryUsableCameraHasOutput ==
    pc \in {"done", "crashed"} =>
      \A c \in Range(camera_serials) :
         (HasUsableDescriptor(c) /\ ~MediaFailed(c))
         => \E f \in Range(final_paths) : f.camera = c

TimeStampsOf(joined) == {joined[k].TimeStamps : k \in DOMAIN joined}

\* C7: the NS5 reader is queried over [min, max] of the timestamps of the
\* joined table.
C7_QueryIsMinMax ==
    (ns5_queries # <<>> /\ chunk_serial_joined # <<>>)
    => ns5_queries[Len(ns5_queries)] =
         <<Min(TimeStampsOf(chunk_serial_joined)),
           Max(TimeStampsOf(chunk_serial_joined))>>

\* The rows of a table that carry one timestamp.
JoinedAt(t) ==
    LET At(r) == r.TimeStamps = t IN SelectSeq(chunk_serial_joined, At)

MergedAt(t) ==
    LET At(r) == r.TimeStamp = t IN SelectSeq(all_merged, At)

\* C8 as stated: every sample of the slice is exactly one row of the merged
\* table, with null metadata when no joined row has its timestamp.
C8_EverySampleExactlyOnce ==
    chunk_serial_joined # <<>> =>
      \A k \in DOMAIN ns5_slice :
         LET t == ns5_slice[k].TimeStamp
         IN  /\ Len(MergedAt(t)) = 1
             /\ JoinedAt(t) = <<>> => MergedAt(t)[1].chunk_serial = NaN

\* C8 amended: a sample whose timestamp no joined row has is exactly one row
\* with null metadata; a sample whose timestamp k >= 1 joined rows have is
\* exactly k rows, one per joined row, in their order and with their
\* metadata; the merged table has no other rows.
C8_OneRowPerMatch ==
    chunk_serial_joined # <<>> =>
      /\ \A k \in DOMAIN ns5_slice :
            LET t == ns5_slice[k].TimeStamp
                merged == MergedAt(t)
                joined == JoinedAt(t)
            IN  /\ \A j \in DOMAIN merged :
                      merged[j].Amplitude = ns5_slice[k].Amplitude
                /\ IF joined = <<>>
                   THEN /\ Len(merged) = 1
                        /\ merged[1].chunk_serial = NaN
                        /\ merged[1].frame_ids_reconstructed = NaN
                        /\ merged[1].frame_ids_relative = NaN
                   ELSE /\ Len(merged) = Len(joined)
                        /\ \A j \in DOMAIN joined :
                              /\ merged[j].chunk_serial =
                                   Some(joined[j].chunk_serial)
                              /\ merged[j].frame_ids_reconstructed =
                                   Some(joined[j].frame_ids_reconstructed)
                              /\ merged[j].frame_ids_relative =
                                   Some(joined[j].frame_ids_relative)
      /\ \A j \in DOMAIN all_merged :
            \E k \in DOMAIN ns5_slice :
               ns5_slice[k].TimeStamp = all_merged[j].TimeStamp

\* C8 witness: one sample of the slice matches two joined rows and another
\* matches none.
C8_Witness ==
    /\ chunk_serial_joined # <<>>
    /\ \E a, b \in DOMAIN ns5_slice :
          /\ Len(JoinedAt(ns5_slice[a].TimeStamp)) >= 2
          /\ JoinedAt(ns5_slice[b].TimeStamp) = <<>>

Relatives == {camera_df[k].frame_ids_relative : k \in DOMAIN camera_df}

Reconstructed ==
    {camera_df[k].frame_ids_reconstructed : k \in DOMAIN camera_df}

\* C9 as stated: over a non-empty row set the minimum frame_ids_relative is
\* 1, in whatever order the reconstructed frame indices come.
C9_MinRelativeIsOne ==
    pc = "join" => Min(Relatives) = 1

\* C9 amended: the first row's frame_ids_relative is 1 and the minimum is
\* 1 + (min reconstructed - first reconstructed): it is 1 exactly when the
\* first row holds the smallest reconstructed frame index.
C9_FirstRelativeIsOne ==
    pc = "join" =>
      /\ camera_df[1].frame_ids_relative = 1
      /\ Min(Relatives) =
           1 + Min(Reconstructed) - camera_df[1].frame_ids_reconstructed
      /\ (Min(Relatives) = 1)
         <=> (camera_df[1].frame_ids_reconstructed = Min(Reconstructed))

\* C9 witness: a row set whose first reconstructed frame index is not its
\* smallest.
C9_Witness ==
    /\ pc = "join"
    /\ Len(camera_df) >= 2
    /\ camera_df[1].frame_ids_reconstructed > Min(Reconstructed)

\* The distinct values of a column, ordered by where each appears first.
FirstAppearance(col) ==
    LET files == Range(col)
        first(f) == Min({k \in DOMAIN col : col[k] = f})
        rank(f) == Cardinality({g \in files : first(g) <= first(f)})
    IN  [j \in 1..Cardinality(files) |-> CHOOSE f \in files : rank(f) = j]

\* The source files requested for a camera so far, in call order.
RequestedFor(c) ==
    LET Mine(call) == call.camera = c
        mine == SelectSeq(subclip_calls, Mine)
    IN  [k \in DOMAIN mine |-> mine[k].mp4]

ConcatCallsFor(c) ==
    LET Mine(call) == call.camera = c IN SelectSeq(concat_calls, Mine)

FinalPathsFor(c) ==
    LET Mine(f) == f.camera = c IN SelectSeq(final_paths, Mine)

SubclipsOf(files) == [k \in DOMAIN files |-> SubclipPath(files[k])]

\* C10: with G1..Gn the source files of the camera's concatenated rows in
\* first-appearance order, the subclips are requested one per file in that
\* order; once the camera is finished, n = 1 made no concatenation call and
\* the subclip is the output, n > 1 made one concatenation call on the
\* subclips of G1..Gn in that order.
C10_SubclipsInFirstAppearanceOrder ==
    LET G == FirstAppearance(Mp4Column(Concat(all_merged_list)))
    IN  /\ pc = "subclip" =>
              /\ sub_pos - 1 <= Len(G)
              /\ RequestedFor(camera_serial) = SubSeq(G, 1, sub_pos - 1)
              /\ subclip_paths = SubclipsOf(SubSeq(G, 1, sub_pos - 1))
        /\ pc = "final" =>
              /\ RequestedFor(camera_serial) = G
              /\ subclip_paths = SubclipsOf(G)
        /\ (pc \in {"camera", "done"} /\ G # <<>>) =>
              LET c == camera_serials[cam_pos - 1]
              IN  /\ RequestedFor(c) = G
                  /\ IF Len(G) = 1
                     THEN /\ ConcatCallsFor(c) = <<>>
                          /\ FinalPathsFor(c) =
                               <<[camera |-> c, path |-> SubclipPath(G[1])]>>
                     ELSE /\ ConcatCallsFor(c) =
                               <<[camera |-> c, paths |-> SubclipsOf(G)]>>
                          /\ FinalPathsFor(c) =
                               <<[camera |-> c, path |-> StitchedPath(c)]>>

\* C10 witness: the groups were listed out of order, one camera ended with a
\* single subclip as its output and the other with a stitched output of two.
C10_Witness ==
    /\ pc = "done"
    /\ camera_files[1].timestamp > camera_files[2].timestamp
    /\ \E f, g \in Range(final_paths) :
          /\ f.path.kind = "subclip"
          /\ g.path.kind = "stitched"
    /\ \E call \in Range(concat_calls) : Len(call.paths) = 2

====
